---------------------------- MODULE Spec2Model ----------------------------
(***************************************************************************)
(* A model of the Polymarket fetch / populate / query scripts:             *)
(*   Playground/fetch_and_populate.py      (API client, mapping, upsert)   *)
(*   Playground/polymarket_events_periodic_updatas.py   (scheduler loop)   *)
(*   Playground/search_event_db.py         (query layer)                   *)
(*   Playground/database_schema.py         (tables and constraints)        *)
(*                                                                         *)
(* The specifications that share the module:                               *)
(*   SpecMap    create_event_from_api / create_market_from_api as pure     *)
(*              functions over raw JSON records                            *)
(*   SpecFetch  the pagination loop of fetch_all_active_events             *)
(*   Spec       continuous_update driving populate_database, statement by  *)
(*              statement, against a transactional store                   *)
(*   SpecQuery  get_events_by_tag over a stored event list                 *)
(*   SpecFrozen, SpecLive   Spec against an API whose answer is the same   *)
(*              in every cycle; SpecLive adds that a sleep returns         *)
(*   SpecReader Spec with get_future_events called from another process    *)
(*                                                                         *)
(* Numbers are integers in hundredths (50 stands for 0.5).  A JSON / Python*)
(* scalar is a record [t, n, s]: t is its type tag, n its number, s its    *)
(* text.  A key that is missing from a JSON object holds JAbsent.          *)
(***************************************************************************)
EXTENDS Integers, Sequences, FiniteSets, TLC

VARIABLES
    \* ---- SpecMap
    map_pc,        \* "event" | "market" | "returned" | "raised" | "idle"
    event_data,    \* the raw event handed to create_event_from_api
    market_data,   \* the raw market handed to create_market_from_api
    map_result,    \* what the call produced
    \* ---- Spec: the store and the SQLAlchemy session
    db,            \* the committed store: [events, markets], each a set of rows
    txn,           \* the store as the open transaction sees it (flushed writes)
    pending,       \* the session's unflushed write, if any
    api,           \* the remote API: [frozen, list]; frozen: every fetch returns list
    \* ---- Spec: continuous_update and populate_database
    s_pc,          \* "fetch" | "populate" | "sleep" | "retry_sleep" | "stopped" | "escaped"
    events,        \* continuous_update's local: the list fetch returned
    p_pc,          \* inside populate_database: "event" | "market" | "commit" | "none"
    ei,            \* index in events of the event being processed
    mi,            \* index in its markets of the market to process next
    counts,        \* [events_added, events_updated, markets_added, markets_updated]
    \* ---- Spec: history of the run
    p_result,      \* how the last populate_database call ended, and with what
    db0,           \* the committed store when the last call began
    repeat,        \* the call before this one got the same list and succeeded
    touched,       \* ids of the Market rows written for the current raw event
    slept,         \* sleeps of the current cycle: [n, secs, after]
    \* ---- SpecFetch: fetch_all_active_events
    f_pc,          \* "loop" | "returned" | "raised" | "idle"
    max_events,    \* the argument: None or a number of records
    all_events,    \* the records accumulated so far (a record is its position
                   \* in the API's ordering)
    offset,
    pages,         \* history: the size of every page received with status 200
    failed,        \* history: "none", or how the last page fetch failed
    \* ---- SpecQuery: get_events_by_tag
    q_pc,          \* "query" | "scan" | "returned" | "raised" | "idle"
    q_rows,        \* the events table, in the order the database returns it
    now,
    tag_keyword,
    q_limit,       \* the argument limit
    all_future_events,
    q_i,           \* index in all_future_events of the event to scan next
    matching_events

mapVars == <<map_pc, event_data, market_data, map_result>>
storeVars == <<db, txn, pending, api>>
schedVars == <<s_pc, events, p_pc, ei, mi, counts>>
histVars == <<p_result, db0, repeat, touched, slept>>
fetchVars == <<f_pc, max_events, all_events, offset, pages, failed>>
queryVars == <<q_pc, q_rows, now, tag_keyword, q_limit, all_future_events, q_i,
               matching_events>>
notMap == <<storeVars, schedVars, histVars, fetchVars, queryVars>>
notSched == <<mapVars, fetchVars, queryVars>>
notFetch == <<mapVars, storeVars, schedVars, histVars, queryVars>>
notQuery == <<mapVars, storeVars, schedVars, histVars, fetchVars>>

-----------------------------------------------------------------------------
(* Python and JSON values *)

JAbsent == [t |-> "absent", n |-> 0, s |-> ""]
PyNone == [t |-> "none", n |-> 0, s |-> ""]
PyNum(k) == [t |-> "num", n |-> k, s |-> ""]
PyStr(x) == [t |-> "str", n |-> 0, s |-> x]
PyBool(b) == [t |-> "bool", n |-> IF b THEN 1 ELSE 0, s |-> ""]
PyDateTime(k) == [t |-> "datetime", n |-> k, s |-> ""]

\* A JSON array field: absent key, null, or a list.
ListAbsent == [t |-> "absent", l |-> <<>>]
ListNone == [t |-> "none", l |-> <<>>]
PyList(items) == [t |-> "list", l |-> items]

\* Python truthiness of a scalar: None, 0, False and "" are falsy.
Truthy(v) ==
    CASE v.t = "none" -> FALSE
      [] v.t = "num" -> v.n # 0
      [] v.t = "bool" -> v.n # 0
      [] v.t = "str" -> v.s # ""
      [] OTHER -> TRUE

\* d.get(key, default): the default only when the key is missing; a key that
\* is present with a null value yields None.
dict_get(d, key, default) ==
    IF d[key].t = "absent" THEN default ELSE d[key]

\* The texts Python's float() accepts, with the number each denotes.
NumericTexts == {"0.5", "12"}
ParseNumber(x) == IF x = "0.5" THEN 50 ELSE 1200

\* The text Python's str() gives a number.
NumberText(k) ==
    CASE k = 0 -> "0"
      [] k = 50 -> "0.5"
      [] k = 100 -> "1"
      [] k = 200 -> "2"
      [] k = 1000 -> "10"
      [] k = 1100 -> "11"
      [] k = 1200 -> "12"
      [] OTHER -> "n"

\* str(v)
py_str(v) ==
    CASE v.t = "str" -> v.s
      [] v.t = "num" -> NumberText(v.n)
      [] v.t = "bool" -> (IF v.n = 1 THEN "True" ELSE "False")
      [] OTHER -> "None"

\* float(v): the value, or the exception it raises.
py_float(v) ==
    CASE v.t = "num" -> [ok |-> TRUE, val |-> PyNum(v.n), exc |-> ""]
      [] v.t = "bool" -> [ok |-> TRUE, val |-> PyNum(100 * v.n), exc |-> ""]
      [] v.t = "str" ->
            IF v.s \in NumericTexts
            THEN [ok |-> TRUE, val |-> PyNum(ParseNumber(v.s)), exc |-> ""]
            ELSE [ok |-> FALSE, val |-> PyNone, exc |-> "ValueError"]
      [] OTHER -> [ok |-> FALSE, val |-> PyNone, exc |-> "TypeError"]

\* date_string.replace('Z', '+00:00')
ReplaceZ(x) ==
    CASE x = "2030-01-01T00:00:00Z" -> "2030-01-01T00:00:00+00:00"
      [] x = "2020-01-01T00:00:00Z" -> "2020-01-01T00:00:00+00:00"
      [] OTHER -> x

\* The texts datetime.fromisoformat() accepts here, and the instant of each
\* (instants are years since 2000).
IsoTexts == {"2030-01-01T00:00:00+00:00", "2020-01-01T00:00:00+00:00"}
FromIso(x) == IF x = "2030-01-01T00:00:00+00:00" THEN 30 ELSE 20

parse_datetime(date_string) ==
    IF ~Truthy(date_string)
    THEN PyNone
    ELSE IF date_string.t = "str" /\ ReplaceZ(date_string.s) \in IsoTexts
         THEN PyDateTime(FromIso(ReplaceZ(date_string.s)))
         ELSE PyNone   \* the bare except: AttributeError, ValueError

-----------------------------------------------------------------------------
(* Field mapping.  Each modelled attribute stands for the attributes the    *)
(* source maps with the same expression:                                    *)
(*   id             str(d.get('id'))                                        *)
(*   slug, question d.get(k)                                                *)
(*   active         d.get(k, False)                                         *)
(*   end_date       parse_datetime(d.get(k))                                *)
(*   liquidity, liquidity_num   d.get(k, 0)                                 *)
(*   best_bid       float(d.get(k, 0))                                      *)
(*   tags           d.get('tags', [])                                       *)

create_event_from_api(ed) ==
    [ id |-> py_str(dict_get(ed, "id", PyNone)),
      slug |-> dict_get(ed, "slug", PyNone),
      active |-> dict_get(ed, "active", PyBool(FALSE)),
      end_date |-> parse_datetime(dict_get(ed, "endDate", PyNone)),
      liquidity |-> dict_get(ed, "liquidity", PyNum(0)),
      tags |-> IF ed.tags.t = "absent" THEN PyList(<<>>) ELSE ed.tags ]

NoMarket ==
    [ id |-> "", event_id |-> "", question |-> PyNone, best_bid |-> PyNone,
      liquidity_num |-> PyNone, end_date |-> PyNone ]

\* The Market object, or the exception float() raised while building it.
create_market_from_api(md, event_id) ==
    LET bid == py_float(dict_get(md, "bestBid", PyNum(0)))
    IN  IF ~bid.ok
        THEN [ok |-> FALSE, exc |-> bid.exc, row |-> NoMarket]
        ELSE [ ok |-> TRUE, exc |-> "",
               row |-> [ id |-> py_str(dict_get(md, "id", PyNone)),
                         event_id |-> event_id,
                         question |-> dict_get(md, "question", PyNone),
                         best_bid |-> bid.val,
                         liquidity_num |-> dict_get(md, "liquidityNum", PyNum(0)),
                         end_date |-> parse_datetime(dict_get(md, "endDate", PyNone)) ] ]

-----------------------------------------------------------------------------
(* SpecMap: the two mapping functions applied to raw records whose fields   *)
(* are absent, null, well formed or malformed.                              *)

NumericInputs ==
    {JAbsent, PyNone, PyNum(50), PyStr("0.5"), PyStr("abc")}
DateInputs ==
    {JAbsent, PyNone, PyStr("2030-01-01T00:00:00Z"),
     PyStr("2030-01-01T00:00:00+00:00"), PyStr("next week"), PyNum(50)}

MapEventInputs ==
    [ id : {PyStr("1"), PyNum(100), JAbsent},
      slug : {PyStr("a")},
      active : {JAbsent, PyBool(TRUE)},
      endDate : DateInputs,
      liquidity : NumericInputs,
      tags : {ListAbsent},
      markets : {ListAbsent} ]

MapMarketInputs ==
    [ id : {PyStr("10"), PyNum(1000)},
      question : {JAbsent},
      bestBid : NumericInputs,
      liquidityNum : NumericInputs,
      endDate : DateInputs ]

NoRawEvent ==
    [ id |-> JAbsent, slug |-> JAbsent, active |-> JAbsent, endDate |-> JAbsent,
      liquidity |-> JAbsent, tags |-> ListAbsent, markets |-> ListAbsent ]
NoRawMarket ==
    [ id |-> JAbsent, question |-> JAbsent, bestBid |-> JAbsent,
      liquidityNum |-> JAbsent, endDate |-> JAbsent ]
NoEvent ==
    [ id |-> "", slug |-> PyNone, active |-> PyNone, end_date |-> PyNone,
      liquidity |-> PyNone, tags |-> ListNone ]
NoMapResult == [event |-> NoEvent, market |-> NoMarket, exc |-> ""]

MapInit ==
    /\ map_result = NoMapResult
    /\ \/ /\ map_pc = "event"
          /\ event_data \in MapEventInputs
          /\ market_data = NoRawMarket
       \/ /\ map_pc = "market"
          /\ event_data = NoRawEvent
          /\ market_data \in MapMarketInputs

MapEvent ==
    /\ map_pc = "event"
    /\ map_pc' = "returned"
    /\ map_result' = [map_result EXCEPT !.event = create_event_from_api(event_data)]
    /\ UNCHANGED <<event_data, market_data, notMap>>

MapMarket ==
    /\ map_pc = "market"
    /\ LET r == create_market_from_api(market_data, "1")
       IN  /\ map_pc' = IF r.ok THEN "returned" ELSE "raised"
           /\ map_result' = [map_result EXCEPT !.market = r.row, !.exc = r.exc]
    /\ UNCHANGED <<event_data, market_data, notMap>>

MapNext == MapEvent \/ MapMarket

vars == <<mapVars, storeVars, schedVars, histVars, fetchVars, queryVars>>

-----------------------------------------------------------------------------
(* The store (database_schema.py) and the SQLAlchemy session.              *)
(* A table is the set of its rows; the primary key is id.  The session     *)
(* autoflushes before every query, and populate_database issues a query    *)
(* before every write, so at most one write is ever unflushed.             *)

EmptyStore == [events |-> {}, markets |-> {}]
NoPending == [kind |-> "none", event |-> NoEvent, market |-> NoMarket]

\* session.query(Model).filter_by(id=key).first(): the row with that key,
\* if any, among the flushed rows.
query_first(rows, key) == {r \in rows : r.id = key}

\* events.slug is UNIQUE (NULLs excepted): another row holds this slug.
SlugTaken(store, row) ==
    /\ row.slug.t # "none"
    /\ \E r \in store.events : r.id # row.id /\ r.slug = row.slug

\* (a REPLACE of the event row, which takes the event's markets with it)
write_event_replacing(store, row) ==
    [ events |-> {r \in store.events : r.id # row.id} \cup {row},
      markets |-> {r \in store.markets : r.event_id # row.id} ]

\* (an UPDATE only: a new event is never inserted)
write_event_update_only(store, row) ==
    IF \E r \in store.events : r.id = row.id
    THEN [store EXCEPT !.events = {r \in @ : r.id # row.id} \cup {row}]
    ELSE store

\* INSERT or UPDATE of every mapped column of the row with this key.
write_event(store, row) ==
    [store EXCEPT !.events = {r \in @ : r.id # row.id} \cup {row}]
\* (an UPDATE that leaves the market under the event it was stored with)
write_market_keeps_parent(store, row) ==
    [store EXCEPT !.markets =
        {r \in @ : r.id # row.id}
            \cup {[row EXCEPT !.event_id =
                        IF \E r \in store.markets : r.id = row.id
                        THEN (CHOOSE r \in store.markets : r.id = row.id).event_id
                        ELSE @]}]
write_market(store, row) ==
    [store EXCEPT !.markets = {r \in @ : r.id # row.id} \cup {row}]

\* session.flush(): the unflushed write reaches the transaction, or the
\* database refuses it (IntegrityError).
flush(store, p) ==
    CASE p.kind = "event" ->
            IF SlugTaken(store, p.event)
            THEN [ok |-> FALSE, store |-> store]
            ELSE [ok |-> TRUE, store |-> write_event(store, p.event)]
      [] p.kind = "market" -> [ok |-> TRUE, store |-> write_market(store, p.market)]
      [] OTHER -> [ok |-> TRUE, store |-> store]

\* session.commit() / session.rollback(): the committed store afterwards.
session_commit(committed, working) == working
\* (a rollback that keeps what was flushed)
session_rollback_keeps(committed, working) == working
session_rollback(committed, working) == committed

-----------------------------------------------------------------------------
(* The lists the API can hand to populate_database.                         *)

MaxOps == 3   \* rows (events plus markets) written by one populate_database call

EventIds == {"1", "2"}
Slugs == {"a", "b"}
MarketIds == {"10", "11"}

RawMarkets ==
    [ id : {PyStr(i) : i \in MarketIds},
      question : {JAbsent},
      bestBid : {PyStr("0.5"), PyStr("abc")},
      liquidityNum : {JAbsent},
      endDate : {JAbsent} ]

\* The raw events with exactly m nested markets.
RawEventsWith(m) ==
    [ id : {PyStr(i) : i \in EventIds},
      slug : {PyStr(x) : x \in Slugs},
      active : {JAbsent},
      endDate : {JAbsent},
      liquidity : {JAbsent},
      tags : {ListAbsent},
      markets : {PyList(ml) : ml \in [1..m -> RawMarkets]} ]

RECURSIVE BatchesOf(_)
BatchesOf(k) ==
    IF k <= 0
    THEN {<<>>}
    ELSE {<<>>} \cup
         UNION { { <<e>> \o rest : e \in RawEventsWith(m), rest \in BatchesOf(k - 1 - m) }
                 : m \in 0..(k - 1) }

Batches == BatchesOf(MaxOps)

\* event_data.get('markets', [])
markets_of(ed) == IF ed.markets.t = "absent" THEN <<>> ELSE ed.markets.l

\* The stores earlier runs can have left in the database file: primary keys
\* and slugs unique, every market under an event of the store.
EventRows == {create_event_from_api(e) : e \in RawEventsWith(0)}
MarketRows ==
    {create_market_from_api(m, i).row :
        m \in {x \in RawMarkets : create_market_from_api(x, "1").ok}, i \in EventIds}
ValidStore(st) ==
    /\ \A r, q \in st.events : (r.id = q.id \/ r.slug = q.slug) => r = q
    /\ \A r, q \in st.markets : r.id = q.id => r = q
    /\ \A m \in st.markets : \E e \in st.events : e.id = m.event_id
ValidStores ==
    {st \in [events : SUBSET EventRows, markets : SUBSET MarketRows] : ValidStore(st)}

LiveApi == [frozen |-> FALSE, list |-> <<>>]
FrozenApis == {[frozen |-> TRUE, list |-> L] : L \in Batches \ {<<>>}}

-----------------------------------------------------------------------------
(* continuous_update and populate_database.                                 *)
(* fetch_all_active_events is modelled here by what it hands back (a list,  *)
(* possibly empty, or an exception); its pagination loop is SpecFetch.      *)

interval_seconds == 300

ZeroCounts ==
    [events_added |-> 0, events_updated |-> 0, markets_added |-> 0, markets_updated |-> 0]
NoResult == [end |-> "none", exc |-> "", written |-> 0]
RowsWritten(c) ==
    c.events_added + c.events_updated + c.markets_added + c.markets_updated
NoTouched == [events |-> {}, markets |-> {}]

\* events_updated += 1 / events_added += 1
count_event(c, existing) ==
    IF existing # {}
    THEN [c EXCEPT !.events_updated = @ + 1]
    ELSE [c EXCEPT !.events_added = @ + 1]

\* (updates of existing markets go uncounted)
count_market_adds_only(c, existing) ==
    IF existing # {} THEN c ELSE [c EXCEPT !.markets_added = @ + 1]

\* markets_updated += 1 / markets_added += 1
count_market(c, existing) ==
    IF existing # {}
    THEN [c EXCEPT !.markets_updated = @ + 1]
    ELSE [c EXCEPT !.markets_added = @ + 1]

MapIdle ==
    /\ map_pc = "idle"
    /\ event_data = NoRawEvent
    /\ market_data = NoRawMarket
    /\ map_result = NoMapResult

SchedStart(pc, stores, apis) ==
    /\ db \in stores
    /\ txn = db
    /\ api \in apis
    /\ pending = NoPending
    /\ s_pc = pc
    /\ events = <<>>
    /\ p_pc = "none"
    /\ ei = 0
    /\ mi = 0
    /\ counts = ZeroCounts
    /\ p_result = NoResult
    /\ db0 = EmptyStore
    /\ repeat = FALSE
    /\ touched = NoTouched
    /\ slept = [n |-> 0, secs |-> 0, after |-> "start"]

\* events = fetch_all_active_events() returns; if events: populate_database(events)
\* is entered (session = Session(), the four counters set to 0).
FetchReturns ==
    /\ s_pc = "fetch"
    /\ \E L \in (IF api.frozen THEN {api.list} ELSE Batches) :
        /\ events' = L
        /\ IF L # <<>>
           THEN /\ s_pc' = "populate"
                /\ p_pc' = "event"
                /\ ei' = 1
                /\ mi' = 0
                /\ counts' = ZeroCounts
                /\ txn' = db
                /\ pending' = NoPending
                /\ p_result' = NoResult
                /\ db0' = db
                /\ repeat' = (api.frozen /\ slept.after = "ok")
                /\ touched' = NoTouched
           ELSE /\ s_pc' = "sleep"
                /\ UNCHANGED <<p_pc, ei, mi, counts, txn, pending, p_result, db0,
                               repeat, touched>>
    /\ slept' = [n |-> 0, secs |-> 0, after |-> "running"]
    /\ UNCHANGED <<db, api, notSched>>

\* fetch_all_active_events() raises (requests.get, response.json()):
\* except Exception in continuous_update.
FetchRaises ==
    /\ s_pc = "fetch"
    /\ s_pc' = "retry_sleep"
    /\ slept' = [n |-> 0, secs |-> 0, after |-> "running"]
    /\ UNCHANGED <<events, p_pc, ei, mi, counts, p_result, db0, repeat, touched,
                   storeVars, notSched>>

\* An exception inside populate_database's try: session.rollback(), raise,
\* session.close(); continuous_update's except Exception catches it.
PopulateRaises(exc) ==
    /\ db' = session_rollback(db, txn)
    /\ txn' = session_rollback(db, txn)
    /\ pending' = NoPending
    /\ p_result' = [end |-> "raised", exc |-> exc, written |-> RowsWritten(counts)]
    /\ p_pc' = "none"
    /\ ei' = 0
    /\ mi' = 0
    /\ counts' = ZeroCounts
    /\ touched' = NoTouched
    /\ s_pc' = "retry_sleep"
    /\ UNCHANGED <<api, events, db0, repeat, slept>>

\* Where the loops stand once the current event (and its markets) is done.
AfterEvent ==
    /\ mi' = 0
    /\ ei' = ei + 1
    /\ p_pc' = IF ei = Len(events) THEN "commit" ELSE "event"

\* One iteration of `for event_data in events_data`, down to the market loop.
PopulateEvent ==
    /\ s_pc = "populate"
    /\ p_pc = "event"
    /\ LET ed == events[ei]
           event_id == py_str(dict_get(ed, "id", PyNone))
           fl == flush(txn, pending)
           existing_event == query_first(fl.store.events, event_id)
           row == create_event_from_api(ed)
       IN  IF ~fl.ok
           THEN PopulateRaises("IntegrityError")
           ELSE IF ed.markets.t = "none"
           THEN PopulateRaises("TypeError")
           ELSE /\ txn' = fl.store
                /\ pending' = [kind |-> "event", event |-> row, market |-> NoMarket]
                /\ counts' = count_event(counts, existing_event)
                /\ touched' = [events |-> {row.id}, markets |-> {}]
                /\ IF markets_of(ed) # <<>>
                   THEN p_pc' = "market" /\ mi' = 1 /\ ei' = ei
                   ELSE AfterEvent
                /\ UNCHANGED <<db, api, s_pc, events, p_result, db0, repeat, slept>>
    /\ UNCHANGED notSched

\* One iteration of `for market_data in markets_data`.
PopulateMarket ==
    /\ s_pc = "populate"
    /\ p_pc = "market"
    /\ LET ed == events[ei]
           event_id == py_str(dict_get(ed, "id", PyNone))
           md == markets_of(ed)[mi]
           market_id == py_str(dict_get(md, "id", PyNone))
           fl == flush(txn, pending)
           existing_market == query_first(fl.store.markets, market_id)
           m == create_market_from_api(md, event_id)
       IN  IF ~fl.ok
           THEN PopulateRaises("IntegrityError")
           ELSE IF ~m.ok
           THEN PopulateRaises(m.exc)
           ELSE /\ txn' = fl.store
                /\ pending' = [kind |-> "market", event |-> NoEvent, market |-> m.row]
                /\ counts' = count_market(counts, existing_market)
                /\ touched' = [touched EXCEPT !.markets = @ \cup {m.row.id}]
                /\ IF mi < Len(markets_of(ed))
                   THEN mi' = mi + 1 /\ UNCHANGED <<ei, p_pc>>
                   ELSE AfterEvent
                /\ UNCHANGED <<db, api, s_pc, events, p_result, db0, repeat, slept>>
    /\ UNCHANGED notSched

\* session.commit(), the prints, session.close(); back in continuous_update.
PopulateCommit ==
    /\ s_pc = "populate"
    /\ p_pc = "commit"
    /\ LET fl == flush(txn, pending)
       IN  IF ~fl.ok
           THEN PopulateRaises("IntegrityError")
           ELSE /\ db' = session_commit(db, fl.store)
                /\ txn' = session_commit(db, fl.store)
                /\ pending' = NoPending
                /\ p_result' = [end |-> "done", exc |-> "", written |-> RowsWritten(counts)]
                /\ p_pc' = "none"
                /\ s_pc' = "sleep"
                /\ UNCHANGED <<api, events, ei, mi, counts, db0, repeat, touched, slept>>
    /\ UNCHANGED notSched

\* The database fails a statement (connection lost, database locked).
PopulateStorageError ==
    /\ s_pc = "populate"
    /\ PopulateRaises("OperationalError")
    /\ UNCHANGED notSched

\* `while True` is re-entered: events and populate_database's locals are
\* rebound before they are read again, and the history starts afresh.
LoopBack ==
    /\ events' = <<>>
    /\ ei' = 0
    /\ mi' = 0
    /\ counts' = ZeroCounts
    /\ db0' = EmptyStore
    /\ repeat' = FALSE
    /\ touched' = NoTouched
    /\ p_result' = NoResult

\* time.sleep(interval_seconds) at the end of the try block.
Sleep ==
    /\ s_pc = "sleep"
    /\ s_pc' = "fetch"
    /\ slept' = [n |-> slept.n + 1, secs |-> interval_seconds, after |-> "ok"]
    /\ LoopBack
    /\ UNCHANGED <<p_pc, storeVars, notSched>>

\* (the loop gives up after a failed cycle)
RetrySleep_gives_up ==
    /\ s_pc = "retry_sleep"
    /\ s_pc' = "stopped"
    /\ UNCHANGED <<events, p_pc, ei, mi, counts, p_result, db0, repeat, touched,
                   slept, storeVars, notSched>>

\* time.sleep(interval_seconds) in the except Exception handler.
RetrySleep ==
    /\ s_pc = "retry_sleep"
    /\ s_pc' = "fetch"
    /\ slept' = [n |-> slept.n + 1, secs |-> interval_seconds, after |-> "failed"]
    /\ LoopBack
    /\ UNCHANGED <<p_pc, storeVars, notSched>>

\* Ctrl+C inside the try block.  Within populate_database `except Exception`
\* does not catch it; `finally: session.close()` ends the transaction
\* uncommitted.  `except KeyboardInterrupt: break` ends the loop.
KeyboardInterruptInTry ==
    /\ s_pc \in {"fetch", "populate", "sleep"}
    /\ s_pc' = "stopped"
    /\ IF s_pc = "populate"
       THEN /\ txn' = db
            /\ pending' = NoPending
            /\ p_result' = [end |-> "interrupted", exc |-> "KeyboardInterrupt",
                             written |-> RowsWritten(counts)]
            /\ p_pc' = "none"
            /\ ei' = 0
            /\ mi' = 0
            /\ counts' = ZeroCounts
            /\ touched' = NoTouched
       ELSE UNCHANGED <<txn, pending, p_result, p_pc, ei, mi, counts, touched>>
    /\ UNCHANGED <<db, api, events, db0, repeat, slept, notSched>>

\* Ctrl+C during the handler's time.sleep: no try encloses it.
KeyboardInterruptInHandler ==
    /\ s_pc = "retry_sleep"
    /\ s_pc' = "escaped"
    /\ UNCHANGED <<events, p_pc, ei, mi, counts, p_result, db0, repeat, touched,
                   slept, storeVars, notSched>>

Next ==
    \/ FetchReturns
    \/ FetchRaises
    \/ PopulateEvent
    \/ PopulateMarket
    \/ PopulateCommit
    \/ PopulateStorageError
    \/ Sleep
    \/ RetrySleep
    \/ KeyboardInterruptInTry
    \/ KeyboardInterruptInHandler

-----------------------------------------------------------------------------
(* fetch_all_active_events: the pagination loop.                            *)

limit == 100
MaxPages == 3   \* page requests of one fetch_all_active_events call

\* What one GET can come to: status 200 with n records, another status, or
\* requests.get / response.json() raising.
PageSizes == {0, 1, 70, 99, limit}
Responses ==
    {[kind |-> "200", n |-> n] : n \in PageSizes}
        \cup {[kind |-> "500", n |-> 0], [kind |-> "exception", n |-> 0]}

MaxEventsInputs ==
    {PyNone} \cup {PyNum(k) : k \in {1, 50, 100, 150, 200, 250, 300, 500}}

\* The records at positions off + 1 .. off + n of the API's ordering.
PageAt(off, n) == [i \in 1..n |-> off + i]

\* fetch_active_events(limit, offset) against this response: the list it
\* returns, unless the request raised.
fetch_active_events(resp, lim, off) ==
    CASE resp.kind = "200" -> [raised |-> FALSE, events |-> PageAt(off, resp.n)]
      [] resp.kind = "500" -> [raised |-> FALSE, events |-> <<>>]
      [] OTHER -> [raised |-> TRUE, events |-> <<>>]

\* all_events[:max_events]
Truncate(seq, k) == SubSeq(seq, 1, IF k < Len(seq) THEN k ELSE Len(seq))

FetchIdle ==
    /\ f_pc = "idle"
    /\ max_events = PyNone
    /\ all_events = <<>>
    /\ offset = 0
    /\ pages = <<>>
    /\ failed = "none"

FetchInit ==
    /\ f_pc = "loop"
    /\ max_events \in MaxEventsInputs
    /\ all_events = <<>>
    /\ offset = 0
    /\ pages = <<>>
    /\ failed = "none"

\* One iteration of `while True`.
FetchLoop ==
    /\ f_pc = "loop"
    /\ Len(pages) < MaxPages
    /\ \E resp \in Responses :
        LET r == fetch_active_events(resp, limit, offset)
            got == all_events \o r.events
        IN  /\ failed' = CASE resp.kind = "200" -> "none"
                           [] resp.kind = "500" -> "http"
                           [] OTHER -> "network"
            /\ pages' = IF resp.kind = "200" THEN Append(pages, resp.n) ELSE pages
            /\ IF r.raised
               THEN /\ f_pc' = "raised"     \* all_events goes with the frame
                    /\ all_events' = <<>>
                    /\ UNCHANGED offset
               ELSE IF r.events = <<>>
               THEN /\ f_pc' = "returned"   \* if not events: break
                    /\ UNCHANGED <<all_events, offset>>
               ELSE IF Len(r.events) < limit
               THEN /\ f_pc' = "returned"
                    /\ all_events' = got
                    /\ UNCHANGED offset
               ELSE IF Truthy(max_events) /\ Len(got) >= max_events.n
               THEN /\ f_pc' = "returned"
                    /\ all_events' = Truncate(got, max_events.n)
                    /\ UNCHANGED offset
               ELSE /\ f_pc' = "loop"
                    /\ all_events' = got
                    /\ offset' = offset + limit
    /\ UNCHANGED <<max_events, notFetch>>

FetchNext == FetchLoop

-----------------------------------------------------------------------------
(* get_events_by_tag.  A text is the sequence of its characters.            *)

MaxStored == 2   \* rows of the events table

Crypto == <<"C", "r", "y", "p", "t", "o">>
crypto == <<"c", "r", "y", "p", "t", "o">>
CRYPTO == <<"C", "R", "Y", "P", "T", "O">>
Sports == <<"S", "p", "o", "r", "t", "s">>
sports == <<"s", "p", "o", "r", "t", "s">>

\* str.lower(), character by character.
LowerChar(c) ==
    CASE c = "C" -> "c"
      [] c = "R" -> "r"
      [] c = "Y" -> "y"
      [] c = "P" -> "p"
      [] c = "T" -> "t"
      [] c = "O" -> "o"
      [] c = "S" -> "s"
      [] OTHER -> c
\* (the text is compared as it stands)
lower_keeps_case(x) == x
lower(x) == [i \in 1..Len(x) |-> LowerChar(x[i])]

\* Python's `a in b` on texts.
contains(a, b) ==
    \E i \in 0..(Len(b) - Len(a)) : SubSeq(b, i + 1, i + Len(a)) = a

\* A field of a tag object: a missing key, null, or a text.
TagAbsent == [t |-> "absent", cs |-> <<>>]
TagNull == [t |-> "none", cs |-> <<>>]
TagText(x) == [t |-> "str", cs |-> x]

\* An entry of Event.tags: a label/slug object, a plain string, a number.
TagDict(label, slug) == [t |-> "dict", label |-> label, slug |-> slug]
TagStr(x) == [t |-> "str", label |-> TagText(x), slug |-> TagAbsent]
TagNumber == [t |-> "num", label |-> TagAbsent, slug |-> TagAbsent]

\* One pass of `for tag in event.tags` over the tags from index k on:
\* "match" (append and break), "none", or "error" (AttributeError: .lower()
\* of None).
RECURSIVE scan_tags(_, _, _)
scan_tags(tags, k, keyword) ==
    IF k > Len(tags)
    THEN "none"
    ELSE LET tag == tags[k]
         IN  CASE tag.t = "dict" ->
                    \* tag.get('label', '').lower(), tag.get('slug', '').lower()
                    IF tag.label.t = "none" \/ tag.slug.t = "none"
                    THEN "error"
                    ELSE IF \/ contains(lower(keyword), lower(tag.label.cs))
                            \/ contains(lower(keyword), lower(tag.slug.cs))
                         THEN "match"
                         ELSE scan_tags(tags, k + 1, keyword)
               [] tag.t = "str" ->
                    IF contains(lower(keyword), lower(tag.label.cs))
                    THEN "match"
                    ELSE scan_tags(tags, k + 1, keyword)
               [] OTHER -> scan_tags(tags, k + 1, keyword)

\* Event.end_date > now, Event.active == True (a NULL satisfies neither).
is_future_active(row, t) ==
    /\ row.end_date.t = "datetime"
    /\ row.end_date.n > t
    /\ row.active = PyBool(TRUE)

RECURSIVE select_rows(_, _)
\* session.query(Event).filter(...).all()
select_rows(table, t) ==
    IF table = <<>>
    THEN <<>>
    ELSE (IF is_future_active(Head(table), t) THEN <<Head(table)>> ELSE <<>>)
            \o select_rows(Tail(table), t)

\* The tags an event can carry.
TagChoices ==
    { TagDict(TagText(Crypto), TagText(crypto)),
      TagDict(TagAbsent, TagText(crypto)),
      TagDict(TagText(Sports), TagAbsent),
      TagDict(TagNull, TagText(crypto)),
      TagDict(TagAbsent, TagAbsent),
      TagStr(Crypto),
      TagNumber }

\* The tag lists an event can carry: NULL, empty, one tag, and lists that mix
\* the forms.
TagLists ==
    {ListNone, PyList(<<>>)}
        \cup {PyList(<<tag>>) : tag \in TagChoices}
        \cup { PyList(<<TagNumber, TagDict(TagAbsent, TagText(crypto))>>),
               PyList(<<TagStr(Crypto), TagDict(TagText(Sports), TagAbsent)>>),
               PyList(<<TagDict(TagText(Crypto), TagText(crypto)),
                        TagDict(TagNull, TagText(crypto))>>),
               PyList(<<TagDict(TagNull, TagText(crypto)),
                        TagDict(TagText(Crypto), TagText(crypto))>>) }

StoredEvent(id, active, end_date, tags) ==
    [ id |-> id, slug |-> PyStr(id), active |-> active, end_date |-> end_date,
      liquidity |-> PyNum(0), tags |-> tags ]

\* The columns the query reads: any tags when the row passes the filter; the
\* Crypto tag when it is inactive, past or without an end date.
StoredEvents ==
    {[active |-> PyBool(TRUE), end_date |-> PyDateTime(30), tags |-> tl] : tl \in TagLists}
        \cup { [active |-> a, end_date |-> d,
                tags |-> PyList(<<TagDict(TagText(Crypto), TagText(crypto))>>)] :
                 a \in {PyBool(FALSE)}, d \in {PyDateTime(30)} }
        \cup { [active |-> a, end_date |-> d,
                tags |-> PyList(<<TagDict(TagText(Crypto), TagText(crypto))>>)] :
                 a \in {PyBool(TRUE)}, d \in {PyDateTime(20), PyNone} }

\* The events table: up to MaxStored rows, the k-th with id k.
Tables ==
    UNION { { [k \in 1..n |-> StoredEvent(ToString(k), f[k].active, f[k].end_date, f[k].tags)] :
                f \in [1..n -> StoredEvents] } : n \in 0..MaxStored }

Keywords == {crypto, CRYPTO, sports, <<>>}
Limits == {0, 1, 10}

QueryIdle ==
    /\ q_pc = "idle"
    /\ q_rows = <<>>
    /\ now = 0
    /\ tag_keyword = <<>>
    /\ q_limit = 0
    /\ all_future_events = <<>>
    /\ q_i = 0
    /\ matching_events = <<>>

QueryInit ==
    /\ q_pc = "query"
    /\ q_rows \in Tables
    /\ now = 26
    /\ tag_keyword \in Keywords
    /\ q_limit \in Limits
    /\ all_future_events = <<>>
    /\ q_i = 0
    /\ matching_events = <<>>

\* all_future_events = session.query(Event).filter(...).all()
QueryFuture ==
    /\ q_pc = "query"
    /\ all_future_events' = select_rows(q_rows, now)
    /\ q_i' = 1
    /\ q_pc' = IF select_rows(q_rows, now) = <<>> THEN "returned" ELSE "scan"
    /\ UNCHANGED <<q_rows, now, tag_keyword, q_limit, matching_events, notQuery>>

\* One iteration of `for event in all_future_events`, its break included.
ScanEvent ==
    /\ q_pc = "scan"
    /\ LET event == all_future_events[q_i]
           found == IF event.tags.t = "list" /\ event.tags.l # <<>>   \* if event.tags:
                    THEN scan_tags(event.tags.l, 1, tag_keyword)
                    ELSE "none"
           matched == IF found = "match"
                      THEN Append(matching_events, event)
                      ELSE matching_events
       IN  IF found = "error"
           THEN /\ q_pc' = "raised"
                /\ UNCHANGED <<q_i, matching_events>>
           ELSE /\ matching_events' = matched
                /\ q_i' = q_i + 1
                /\ q_pc' = IF Len(matched) >= q_limit \/ q_i = Len(all_future_events)
                           THEN "returned"
                           ELSE "scan"
    /\ UNCHANGED <<q_rows, now, tag_keyword, q_limit, all_future_events, notQuery>>

QueryNext == QueryFuture \/ ScanEvent

-----------------------------------------------------------------------------
(* The specifications.                                                     *)

SchedIdle == SchedStart("idle", {EmptyStore}, {LiveApi})

\* continuous_update against an API whose answers change from cycle to cycle.
Init == SchedStart("fetch", ValidStores, {LiveApi}) /\ MapIdle /\ FetchIdle /\ QueryIdle
Spec == Init /\ [][Next]_vars

\* continuous_update against an API whose answer does not change.
InitFrozen ==
    SchedStart("fetch", ValidStores, FrozenApis) /\ MapIdle /\ FetchIdle /\ QueryIdle
SpecFrozen == InitFrozen /\ [][Next]_vars

\* continuous_update on a new database file, against an API whose answer does
\* not change, the thread kept running: a time.sleep that has begun returns
\* (or is interrupted).
InitLive ==
    SchedStart("fetch", {EmptyStore}, FrozenApis) /\ MapIdle /\ FetchIdle /\ QueryIdle
SpecLive == InitLive /\ [][Next]_vars /\ WF_vars(Sleep) /\ WF_vars(RetrySleep)

InitMap == MapInit /\ SchedIdle /\ FetchIdle /\ QueryIdle
SpecMap == InitMap /\ [][MapNext]_vars

InitFetch == FetchInit /\ MapIdle /\ SchedIdle /\ QueryIdle
SpecFetch == InitFetch /\ [][FetchNext]_vars

InitQuery == QueryInit /\ MapIdle /\ SchedIdle /\ FetchIdle
SpecQuery == InitQuery /\ [][QueryNext]_vars

-----------------------------------------------------------------------------
(* The query layer run as a second process while continuous_update writes:  *)
(* search_event_db.py opens its own engine and Session on the same file.    *)

\* (a reader that shares the writer's open transaction)
visible_store_dirty(committed, working) == working
\* What another connection's SELECT reads: the committed store.
visible_store(committed, working) == committed

\* The orders in which a set of rows can come back.
Orderings(S) ==
    {s \in [1..Cardinality(S) -> S] :
        \A i, j \in 1..Cardinality(S) : i # j => s[i] # s[j]}

\* .order_by(Event.end_date.asc()): ties come in any order.
order_by_end_date(seq) ==
    {s \in Orderings({seq[k] : k \in 1..Len(seq)}) :
        \A i \in 1..(Len(s) - 1) : s[i].end_date.n <= s[i + 1].end_date.n}

ReaderLimits == {1, 10}

\* get_future_events(limit): Session(), the SELECT, session.close().
get_future_events ==
    /\ q_pc \in {"idle", "returned"}
    /\ \E table \in Orderings(visible_store(db, txn).events), lim \in ReaderLimits :
        \E res \in order_by_end_date(select_rows(table, 26)) :
            /\ q_rows' = table
            /\ now' = 26
            /\ q_limit' = lim
            /\ all_future_events' = Truncate(res, lim)
    /\ q_pc' = "returned"
    /\ UNCHANGED <<tag_keyword, q_i, matching_events, notQuery>>

\* The events the API hands over while a reader runs: active, ending in 2030,
\* with a liquidity that tells one version of a row from another.
ReaderMarkets ==
    { [ id |-> PyStr("10"), question |-> JAbsent, bestBid |-> b,
        liquidityNum |-> JAbsent, endDate |-> JAbsent ] :
        b \in {PyStr("0.5"), PyStr("abc")} }
ReaderEvent(id, liquidity, markets) ==
    [ id |-> PyStr(id), slug |-> PyNone, active |-> PyBool(TRUE),
      endDate |-> PyStr("2030-01-01T00:00:00Z"), liquidity |-> liquidity,
      tags |-> ListAbsent, markets |-> PyList(markets) ]
ReaderEvents ==
    {ReaderEvent("1", l, <<>>) : l \in {PyNum(100), PyNum(200)}}
        \cup {ReaderEvent("2", PyNum(100), <<>>)}
        \cup {ReaderEvent("2", PyNum(100), <<m>>) : m \in ReaderMarkets}
ReaderLists == UNION {[1..n -> ReaderEvents] : n \in 1..(MaxOps - 1)}
ReaderApis == {[frozen |-> TRUE, list |-> L] : L \in ReaderLists}
ReaderStores ==
    { EmptyStore,
      [ events |-> {create_event_from_api(ReaderEvent("1", PyNum(50), <<>>))},
        markets |-> {} ] }

\* continuous_update with get_future_events called from another process at
\* any moment.
ReaderNext == Next \/ get_future_events
InitReader ==
    SchedStart("fetch", ReaderStores, ReaderApis) /\ MapIdle /\ FetchIdle /\ QueryIdle
SpecReader == InitReader /\ [][ReaderNext]_vars

-----------------------------------------------------------------------------
(* Properties of populate_database and continuous_update.                  *)

\* populate_database has just returned or raised (the loop has not gone on).
JustEnded == s_pc \in {"sleep", "retry_sleep", "stopped"} /\ p_result.end # "none"

\* C1: when populate_database(L) succeeded and is run again on
\* the same L, the second run completes, leaves the store as the first run
\* left it and reports events_added = 0 and markets_added = 0.  Failures of
\* the database itself and operator interrupts are not held against it.
C1_SecondRunAllUpdates ==
    (JustEnded /\ repeat /\ p_result.end # "interrupted"
               /\ p_result.exc # "OperationalError")
        => /\ p_result.end = "done"
           /\ db = db0
           /\ counts.events_added = 0
           /\ counts.markets_added = 0

\* C2: when populate_database raises, the committed store is the store as it
\* was before the call, no transaction is left open, and the exception has
\* reached the caller's handler; an interrupt inside the call leaves the
\* store as it was as well.
C2_RollbackRestoresStore ==
    /\ (JustEnded /\ p_result.end = "raised")
        => /\ db = db0
           /\ txn = db
           /\ pending = NoPending
           /\ p_pc = "none"
           /\ s_pc = "retry_sleep"
    /\ (JustEnded /\ p_result.end = "interrupted")
        => /\ db = db0
           /\ txn = db
           /\ pending = NoPending
           /\ p_pc = "none"
           /\ s_pc = "stopped"

\* The second market of an event fails to map after the event and its first
\* market were written, over a store that already held rows.
C2_Witness ==
    /\ JustEnded
    /\ p_result.end = "raised"
    /\ p_result.exc = "ValueError"
    /\ p_result.written = 2
    /\ db0.markets # {}

RECURSIVE MarketsBefore(_, _)
\* The number of nested market records of the first k - 1 events of L.
MarketsBefore(L, k) ==
    IF k <= 1 THEN 0 ELSE MarketsBefore(L, k - 1) + Len(markets_of(L[k - 1]))

\* Raw events, and nested markets, whose iteration has been carried out.
EventsDone == IF p_pc = "market" THEN ei ELSE ei - 1
MarketsDone == MarketsBefore(events, ei) + (IF p_pc = "market" THEN mi - 1 ELSE 0)
InCall == s_pc = "populate" \/ (JustEnded /\ p_result.end = "done")
\* The raw event whose iteration is complete, when there is one.
EventComplete == InCall /\ p_pc # "market" /\ ei >= 2
MarketIdsOf(ed) ==
    {py_str(dict_get(markets_of(ed)[k], "id", PyNone)) : k \in 1..Len(markets_of(ed))}

\* C4 (as claimed): each raw event with N nested markets adds 1 to
\* events_added + events_updated and N to markets_added + markets_updated,
\* and writes exactly 1 Event row and exactly N Market rows, also when ids
\* repeat.
C4_CountsAndRows ==
    /\ InCall =>
        /\ counts.events_added + counts.events_updated = EventsDone
        /\ counts.markets_added + counts.markets_updated = MarketsDone
    /\ EventComplete =>
        /\ Cardinality(touched.events) = 1
        /\ Cardinality(touched.markets) = Len(markets_of(events[ei - 1]))

\* C4 (amended): the counters are as claimed for every batch; the rows an
\* event writes are the Event row of its id and one Market row per distinct
\* market id among its N records (N rows when the ids are distinct).
C4_CountsAndDistinctRows ==
    /\ InCall =>
        /\ counts.events_added + counts.events_updated = EventsDone
        /\ counts.markets_added + counts.markets_updated = MarketsDone
    /\ EventComplete =>
        /\ touched.events = {py_str(dict_get(events[ei - 1], "id", PyNone))}
        /\ touched.markets = MarketIdsOf(events[ei - 1])
    /\ (JustEnded /\ p_result.end = "done") =>
        /\ \A k \in 1..Len(events) :
            /\ \E e \in db.events : e.id = py_str(dict_get(events[k], "id", PyNone))
            /\ \A i \in MarketIdsOf(events[k]) : \E m \in db.markets : m.id = i
        /\ Cardinality(db.events) = Cardinality(db0.events) + counts.events_added
        /\ Cardinality(db.markets) = Cardinality(db0.markets) + counts.markets_added

\* A batch that repeats an event id, whose last event has two markets, ends.
C4_Witness ==
    /\ JustEnded
    /\ p_result.end = "done"
    /\ Len(events) = 2
    /\ events[1].id = events[2].id
    /\ counts.events_added = 1
    /\ counts.events_updated = 1
    /\ counts.markets_added + counts.markets_updated = 1

\* C5: a cycle sleeps once, for interval_seconds, before the next fetch,
\* whether it ended normally or in an exception; and after a failed cycle the
\* next fetch follows unless the operator interrupts.
C5_OneSleepThenFetch ==
    /\ [](s_pc = "fetch" /\ slept.after # "start"
            => slept.n = 1 /\ slept.secs = interval_seconds)
    /\ [](s_pc \in {"populate", "sleep", "retry_sleep"} => slept.n = 0)
    /\ (s_pc = "retry_sleep" ~> s_pc \in {"fetch", "escaped"})
    /\ (s_pc = "sleep" ~> s_pc \in {"fetch", "stopped"})

\* The loop is back at the fetch after a cycle that failed.
C5_Witness ==
    /\ s_pc = "fetch"
    /\ slept.after = "failed"
    /\ slept.n = 1

\* C6: an interrupt ends the loop with no transaction open, and never
\* leaves continuous_update as an uncaught exception.
C6_InterruptStopsCleanly ==
    /\ s_pc \in {"stopped", "escaped"} =>
        /\ p_pc = "none"
        /\ pending = NoPending
        /\ txn = db
    /\ s_pc # "escaped"

\* Every market of the store lies under an event of the store.
Referenced(st) == \A m \in st.markets : \E e \in st.events : e.id = m.event_id

\* C7: a Market is written only once the Event it is nested in has been, and
\* every stored Market's event_id is the id of a stored Event.
C7_MarketsReferenceEvents ==
    /\ Referenced(db)
    /\ Referenced(txn)
    /\ pending.kind = "market" =>
        \E e \in txn.events : e.id = pending.market.event_id

\* An event and a market nested in it were committed by one call, the event
\* being new to the store.
C7_Witness ==
    /\ JustEnded
    /\ p_result.end = "done"
    /\ counts.events_added = 1
    /\ counts.markets_added = 1
    /\ \E m \in db.markets : m.id \notin {q.id : q \in db0.markets}

-----------------------------------------------------------------------------
(* Properties of the field mapping.                                         *)

\* C8: the mapping never raises, every numeric attribute holds a number (0
\* when the field is absent or null), and a date is a datetime or no value.
C8_MappingIsTotal ==
    /\ map_pc # "raised"
    /\ (map_pc = "returned" /\ event_data # NoRawEvent) =>
        /\ map_result.event.liquidity.t = "num"
        /\ event_data.liquidity.t \in {"absent", "none"} =>
              map_result.event.liquidity = PyNum(0)
        /\ map_result.event.end_date.t \in {"datetime", "none"}
    /\ (map_pc = "returned" /\ market_data # NoRawMarket) =>
        /\ map_result.market.best_bid.t = "num"
        /\ map_result.market.liquidity_num.t = "num"
        /\ map_result.market.end_date.t \in {"datetime", "none"}

-----------------------------------------------------------------------------
(* Properties of fetch_all_active_events.                                   *)

\* C3: the loop goes on only while every page was full, and with max_events
\* given the list returned holds at most max_events records.
C3_StopsAndTruncates ==
    /\ f_pc = "loop" => \A k \in 1..Len(pages) : pages[k] = limit
    /\ (f_pc = "returned" /\ max_events # PyNone) => Len(all_events) <= max_events.n

\* C9: when a page fetch fails after k pages, the call returns (it does not
\* raise) with exactly the records of those k pages.
C9_FailedPageEndsSoftly ==
    failed # "none" =>
        /\ f_pc = "returned"
        /\ all_events = PageAt(0, limit * Len(pages))

-----------------------------------------------------------------------------
(* Properties of get_events_by_tag.                                         *)

SameIgnoringCase(a, b) ==
    /\ Len(a) = Len(b)
    /\ \A i \in 1..Len(a) : LowerChar(a[i]) = LowerChar(b[i])

\* keyword occurs in text, letter case aside.
OccursIn(keyword, text) ==
    \E i \in 1..(Len(text) + 1) :
        /\ i + Len(keyword) - 1 <= Len(text)
        /\ SameIgnoringCase(keyword, SubSeq(text, i, i + Len(keyword) - 1))

\* The label and the slug of a tag; a plain string is its own label, and a
\* key an object lacks reads as the empty text.
TagTexts(tag) ==
    CASE tag.t = "dict" -> {tag.label.cs, tag.slug.cs}
      [] tag.t = "str" -> {tag.label.cs}
      [] OTHER -> {}

EventMatches(event, keyword) ==
    /\ event.tags.t = "list"
    /\ \E k \in 1..Len(event.tags.l) :
        \E x \in TagTexts(event.tags.l[k]) : OccursIn(keyword, x)

\* The tag forms the claim speaks of: no object holds a null label or slug.
PlainTags(event) ==
    event.tags.t = "list" =>
        \A k \in 1..Len(event.tags.l) :
            event.tags.l[k].label.t # "none" /\ event.tags.l[k].slug.t # "none"

Returned(event) == \E k \in 1..Len(matching_events) : matching_events[k] = event
CryptoTagged(event) ==
    event.tags = PyList(<<TagDict(TagText(Crypto), TagText(crypto))>>)

\* C10: the events scanned are exactly the stored events with end_date > now
\* and active = true; a scanned event is returned exactly when the keyword
\* occurs, letter case aside, in the label or the slug of one of its tags;
\* lists mixing strings and objects (also objects lacking a key) raise
\* nothing; the event tagged {Crypto, crypto} is returned for crypto and
\* CRYPTO and not for sports.
C10_TagSearch ==
    /\ q_pc \in {"scan", "returned", "raised"} =>
        /\ \A k \in 1..Len(all_future_events) :
              /\ all_future_events[k].active = PyBool(TRUE)
              /\ all_future_events[k].end_date.t = "datetime"
              /\ all_future_events[k].end_date.n > now
        /\ \A k \in 1..Len(q_rows) :
              (q_rows[k].active = PyBool(TRUE) /\ q_rows[k].end_date.t = "datetime"
                    /\ q_rows[k].end_date.n > now)
                => \E j \in 1..Len(all_future_events) : all_future_events[j] = q_rows[k]
        /\ \A k \in 1..Len(matching_events) :
              \E j \in 1..(q_i - 1) : all_future_events[j] = matching_events[k]
    /\ q_pc \in {"scan", "returned"} =>
        \A k \in 1..(q_i - 1) :
            LET event == all_future_events[k]
            IN  /\ PlainTags(event) =>
                    (Returned(event) <=> EventMatches(event, tag_keyword))
                /\ CryptoTagged(event) =>
                    /\ tag_keyword \in {crypto, CRYPTO} => Returned(event)
                    /\ tag_keyword = sports => ~Returned(event)
    /\ q_pc = "raised" => ~PlainTags(all_future_events[q_i])

\* CRYPTO finds an event whose tags mix a number, and an object without a
\* label, and an inactive event tagged Crypto is left out.
C10_Witness ==
    /\ q_pc = "returned"
    /\ tag_keyword = CRYPTO
    /\ Len(q_rows) = 2
    /\ q_rows[1].active = PyBool(FALSE)
    /\ CryptoTagged(q_rows[1])
    /\ q_rows[2].tags = PyList(<<TagNumber, TagDict(TagAbsent, TagText(crypto))>>)
    /\ matching_events = <<q_rows[2]>>

-----------------------------------------------------------------------------
(* Properties of the store as other processes and later cycles see it.      *)

EventIdOf(ed) == py_str(dict_get(ed, "id", PyNone))
BatchEventIds(L) == {EventIdOf(L[k]) : k \in 1..Len(L)}
\* The last record of L with this event id.
LastWithId(L, id) ==
    L[CHOOSE k \in 1..Len(L) :
        EventIdOf(L[k]) = id /\ \A j \in (k + 1)..Len(L) : EventIdOf(L[j]) # id]
\* The events table once the whole of L is committed over store.
EventsAfter(store, L) ==
    {r \in store.events : r.id \notin BatchEventIds(L)}
        \cup {create_event_from_api(LastWithId(L, id)) : id \in BatchEventIds(L)}

\* The reader's result is a result of its query over the events table S.
Observes(S) ==
    LET visible == {r \in S : r.active = PyBool(TRUE) /\ r.end_date.t = "datetime"
                                /\ r.end_date.n > now}
    IN  /\ Len(all_future_events)
              = (IF q_limit < Cardinality(visible) THEN q_limit ELSE Cardinality(visible))
        /\ \A k \in 1..Len(all_future_events) : all_future_events[k] \in visible
        /\ \A j, k \in 1..Len(all_future_events) :
              j # k => all_future_events[j] # all_future_events[k]

\* C11: a get_future_events call of another process that runs while
\* populate_database is inside a batch reads the store as it was before the
\* batch; one that runs once the call has ended reads the store with the
\* whole batch (the batch committed) or the store as before (the batch
\* failed); it never reads some of the batch's rows.
C11_ReaderSeesWholeBatches ==
    [][ queryVars' # queryVars =>
          /\ s_pc = "populate" => Observes(db0.events)'
          /\ (JustEnded /\ p_result.end = "done") => Observes(EventsAfter(db0, events))'
          /\ (JustEnded /\ p_result.end # "done") => Observes(db0.events)'
      ]_vars

\* A reader holds the store as it was before the batch while the writer's
\* transaction has overwritten one of the batch's two events and not yet the
\* other.
C11_Witness ==
    /\ q_pc = "returned"
    /\ q_limit = 10
    /\ s_pc = "populate"
    /\ Len(events) = 2
    /\ ei = 2
    /\ db0.events # {}
    /\ txn.events # db.events
    /\ txn.events # EventsAfter(db0, events)
    /\ Observes(db0.events)
    /\ ~Observes(txn.events)

\* The places <<k, j>> of the nested market records of L, in processing order.
MarketPlaces(L) ==
    UNION { {<<k, j>> : j \in 1..Len(markets_of(L[k]))} : k \in 1..Len(L) }
MarketIdAt(L, p) == py_str(dict_get(markets_of(L[p[1]])[p[2]], "id", PyNone))
BatchMarketIds(L) == {MarketIdAt(L, p) : p \in MarketPlaces(L)}
ComesAfter(p, q) == p[1] > q[1] \/ (p[1] = q[1] /\ p[2] > q[2])
\* The place where this market id occurs last in L.
LastPlace(L, id) ==
    CHOOSE p \in MarketPlaces(L) :
        /\ MarketIdAt(L, p) = id
        /\ \A q \in MarketPlaces(L) : MarketIdAt(L, q) = id => ~ComesAfter(q, p)
\* The Market row that record maps to, under the event it is nested in.
LastMarketRow(L, id) ==
    LET p == LastPlace(L, id)
    IN  create_market_from_api(markets_of(L[p[1]])[p[2]], EventIdOf(L[p[1]])).row

\* C12: after a successful populate_database(L), the row of every event id
\* and market id of L is the mapping of the last record of L with that id,
\* whatever the row held before, and a Market's event_id is the id of the
\* event in which it appeared last.
C12_FullReplace ==
    (JustEnded /\ p_result.end = "done") =>
        /\ \A id \in BatchEventIds(events) :
              {r \in db.events : r.id = id}
                  = {create_event_from_api(LastWithId(events, id))}
        /\ \A id \in BatchMarketIds(events) :
              /\ {r \in db.markets : r.id = id} = {LastMarketRow(events, id)}
              /\ \A r \in db.markets :
                    r.id = id => r.event_id = EventIdOf(events[LastPlace(events, id)[1]])

\* A call has given a stored event another slug and moved a stored market
\* under another event.
C12_Witness ==
    /\ JustEnded
    /\ p_result.end = "done"
    /\ \E old \in db0.events : \E r \in db.events :
          r.id = old.id /\ r.slug # old.slug /\ r.id \in BatchEventIds(events)
    /\ \E old \in db0.markets : \E r \in db.markets :
          r.id = old.id /\ r.event_id # old.event_id

EventIdsIn(store) == {r.id : r \in store.events}
MarketIdsIn(store) == {r.id : r \in store.markets}

\* C13: no step of continuous_update or populate_database, successful or
\* failed, takes an Event id or a Market id out of the committed store, and a
\* row whose id is not in the list being written keeps its values.
C13_NoDeletion ==
    [][ /\ EventIdsIn(db) \subseteq EventIdsIn(db')
        /\ MarketIdsIn(db) \subseteq MarketIdsIn(db')
        /\ \A r \in db.events : r.id \notin BatchEventIds(events) => r \in db'.events
        /\ \A r \in db.markets : r.id \notin BatchMarketIds(events) => r \in db'.markets
      ]_vars

\* A call has added an event and left alone a stored event and a stored
\* market that its list did not name.
C13_Witness ==
    /\ JustEnded
    /\ p_result.end = "done"
    /\ counts.events_added = 1
    /\ \E r \in db0.events : r.id \notin BatchEventIds(events) /\ r \in db.events
    /\ \E r \in db0.markets : r.id \notin BatchMarketIds(events) /\ r \in db.markets

\* C14: get_events_by_tag returns at most limit events, each once, and scans
\* on only while fewer than limit matches are collected.
C14_AtMostLimit ==
    /\ q_pc = "returned" =>
        /\ Len(matching_events) <= q_limit
        /\ \A j, k \in 1..Len(matching_events) :
              j # k => matching_events[j] # matching_events[k]
    /\ q_pc = "scan" => Len(matching_events) < q_limit

=============================================================================
